---- MODULE Spec2Model ----
(***************************************************************************)
(* A model of the dpkg status-file parser (src/src/parser.rs).            *)
(*                                                                         *)
(* A Rust String / &str is a sequence of one-character strings.  The       *)
(* std-library string functions the parser calls (lines, trim,            *)
(* starts_with, replace, split, writeln!) are operators computed the way   *)
(* the library computes them.  The parser's own functions are operators    *)
(* (parse_libraries, parse_field, parse_package) and, for the two loops,   *)
(* actions that take one loop iteration per step.                          *)
(***************************************************************************)
EXTENDS Integers, Sequences, FiniteSets, TLC

(***************************************************************************)
(* Characters.                                                             *)
(***************************************************************************)
SP == " "
LF == "\n"
CR == "\r"
TAB == "\t"

\* char::is_whitespace, restricted to the characters of the model.
White_Space == {SP, LF, CR, TAB}

(***************************************************************************)
(* Bounds of the model.                                                    *)
(***************************************************************************)
\* longest dependency string enumerated character by character
MaxDepLen == 5
\* most lines in a stanza handed to parse_field on its own
MaxFieldLines == 3
\* most lines in a source handed to parse
MaxSourceLines == 4

(***************************************************************************)
(* std string functions.                                                   *)
(***************************************************************************)
Drop(s, n) == SubSeq(s, n + 1, Len(s))

Take(s, n) == SubSeq(s, 1, n)

\* str::is_empty / Vec::is_empty
is_empty(s) == Len(s) = 0

\* str::starts_with(&pat)
starts_with(s, pat) == Len(pat) <= Len(s) /\ Take(s, Len(pat)) = pat

RECURSIVE JoinWith(_, _)
\* [T]::join(sep), used to write inputs and expected values
JoinWith(parts, sep) ==
    IF parts = <<>> THEN <<>>
    ELSE IF Len(parts) = 1 THEN parts[1]
    ELSE parts[1] \o sep \o JoinWith(Tail(parts), sep)

RECURSIVE SplitFrom(_, _, _)
\* the pieces of s between successive leftmost non-overlapping matches of
\* sep, cur being the piece under construction
SplitFrom(s, sep, cur) ==
    IF s = <<>> THEN <<cur>>
    ELSE IF starts_with(s, sep)
         THEN <<cur>> \o SplitFrom(Drop(s, Len(sep)), sep, <<>>)
         ELSE SplitFrom(Tail(s), sep, Append(cur, Head(s)))

\* str::split(sep) collected: always at least one piece
split(s, sep) == SplitFrom(s, sep, <<>>)

RECURSIVE replace(_, _, _)
\* str::replace(from, to): every leftmost non-overlapping match replaced
replace(s, from, to) ==
    IF s = <<>> THEN <<>>
    ELSE IF starts_with(s, from)
         THEN to \o replace(Drop(s, Len(from)), from, to)
         ELSE <<Head(s)>> \o replace(Tail(s), from, to)

RECURSIVE trim_start(_)
trim_start(s) ==
    IF s # <<>> /\ Head(s) \in White_Space THEN trim_start(Tail(s)) ELSE s

RECURSIVE trim_end(_)
trim_end(s) ==
    IF s # <<>> /\ s[Len(s)] \in White_Space
    THEN trim_end(Take(s, Len(s) - 1)) ELSE s

\* str::trim
trim(s) == trim_end(trim_start(s))

RECURSIVE SplitInclusive(_, _)
\* str::split_inclusive('\n'): every piece but a last unterminated one ends
\* with the line feed; no empty last piece
SplitInclusive(s, cur) ==
    IF s = <<>> THEN (IF cur = <<>> THEN <<>> ELSE <<cur>>)
    ELSE IF Head(s) = LF
         THEN <<Append(cur, LF)>> \o SplitInclusive(Tail(s), <<>>)
         ELSE SplitInclusive(Tail(s), Append(cur, Head(s)))

\* what str::lines does to one piece: strip the "\n", then one "\r"
\* (a last piece without "\n" is kept whole; parse and parse_field within
\* parse only see texts whose every line ends with "\n")
StripLineEnding(piece) ==
    IF piece # <<>> /\ piece[Len(piece)] = LF
    THEN LET l == Take(piece, Len(piece) - 1)
         IN IF l # <<>> /\ l[Len(l)] = CR THEN Take(l, Len(l) - 1) ELSE l
    ELSE piece

\* str::lines collected
lines(s) ==
    LET pieces == SplitInclusive(s, <<>>)
    IN [k \in 1..Len(pieces) |-> StripLineEnding(pieces[k])]

\* writeln!(&mut buf, "{}", line)
writeln(buf, line) == buf \o line \o <<LF>>

(***************************************************************************)
(* ast.rs: the nodes of the parsed document.                               *)
(***************************************************************************)
Library_new(name, alternates) ==
    [kind |-> "Library", name |-> name, alternates |-> alternates]

Package_new(name, description, depends) ==
    [kind |-> "Package", name |-> name, description |-> description,
     depends |-> depends]

Document_new(packages) == [kind |-> "Document", packages |-> packages]

(***************************************************************************)
(* parser.rs: the field names and the results.                             *)
(***************************************************************************)
FieldName == {"Package", "Depends", "Description"}

\* impl ToString for FieldName
to_string(field_name) ==
    CASE field_name = "Package" -> <<"P", "a", "c", "k", "a", "g", "e">>
      [] field_name = "Depends" -> <<"D", "e", "p", "e", "n", "d", "s">>
      [] field_name = "Description" ->
             <<"D", "e", "s", "c", "r", "i", "p", "t", "i", "o", "n">>

\* ParseResult<T>: Ok(value), Err(ParseError::PackageNameNotFound(text)), and
\* Panic for a call that unwinds instead of returning
Ok(v) == [tag |-> "Ok", value |-> v]

PackageNameNotFound(text) == [tag |-> "Err", error |-> text]

Panic == [tag |-> "Panic"]

\* no result yet
Pending == [tag |-> "Pending"]

(***************************************************************************)
(* parse_libraries                                                         *)
(***************************************************************************)
\* the closure with the slice vec[0..] in place of vec[1..]
LibraryOfClause_WholeSlice(s) ==
    LET vec == split(s, <<SP, "|", SP>>)
    IN Library_new(vec[1], vec)

\* the closure splitting on "|" in place of " | "
LibraryOfClause_SplitOnPipe(s) ==
    LET vec == split(s, <<"|">>)
    IN Library_new(vec[1], Tail(vec))

\* the closure mapped over the clauses (parser.rs:189-201)
LibraryOfClause(s) ==
    LET vec == split(s, <<SP, "|", SP>>)
        name == vec[1]
        alternates == Tail(vec)
    IN Library_new(name, alternates)

\* parse_libraries refusing a string with an empty clause
parse_libraries_RejectEmptyClause(source) ==
    IF ~is_empty(source)
    THEN LET clauses == split(source, <<",", SP>>)
         IN IF \E k \in 1..Len(clauses) : clauses[k] = <<>>
            THEN PackageNameNotFound(source)
            ELSE Ok([k \in 1..Len(clauses) |-> LibraryOfClause(clauses[k])])
    ELSE Ok(<<>>)

parse_libraries(source) ==
    IF ~is_empty(source)
    THEN LET clauses == split(source, <<",", SP>>)
         IN Ok([k \in 1..Len(clauses) |-> LibraryOfClause(clauses[k])])
    ELSE Ok(<<>>)

(***************************************************************************)
(* parse_field                                                             *)
(***************************************************************************)
\* format!("{}:", field_name.to_string())
pat(field_name) == to_string(field_name) \o <<":">>

\* One iteration of the loop of parse_field on `line` with the buffer `buf`:
\* the buffer after it and how the iteration ends ("next", "break", or
\* "panic" for the unwrap of the first character of an empty line).
FieldIteration(field_name, line, buf) ==
    IF line = <<>> THEN [buf |-> buf, exit |-> "panic"]
    ELSE LET indented == Head(line) = SP
         IN IF starts_with(line, pat(field_name))
            THEN LET replace_ == to_string(field_name) \o <<":", SP>>
                 IN [buf |-> writeln(buf, replace(line, replace_, <<>>)),
                     exit |-> "next"]
            ELSE IF ~is_empty(buf)
                 THEN IF indented
                      THEN [buf |-> writeln(buf, trim(line)), exit |-> "next"]
                      ELSE [buf |-> buf, exit |-> "break"]
                 ELSE [buf |-> buf, exit |-> "next"]

\* FieldValue stripping the last line feed only
FieldValue_StripLastLinebreak(buf) ==
    Ok(IF buf = <<>> THEN <<>> ELSE Take(buf, Len(buf) - 1))

\* the value returned after the loop (parser.rs:177-180)
FieldValue(buf) == Ok(trim(buf))

RECURSIVE FieldLoop(_, _, _)
\* the loop of parse_field over the remaining lines `ls`
FieldLoop(field_name, ls, buf) ==
    IF ls = <<>> THEN FieldValue(buf)
    ELSE LET it == FieldIteration(field_name, Head(ls), buf)
         IN CASE it.exit = "panic" -> Panic
              [] it.exit = "break" -> FieldValue(it.buf)
              [] it.exit = "next" -> FieldLoop(field_name, Tail(ls), it.buf)

parse_field(field_name, source) == FieldLoop(field_name, lines(source), <<>>)

(***************************************************************************)
(* parse_package                                                           *)
(***************************************************************************)
\* parse_package without the check of the name
parse_package_NoNameCheck(source) ==
    LET name == parse_field("Package", source)
        description == parse_field("Description", source)
        depends == parse_field("Depends", source)
    IN IF name.tag = "Panic" \/ description.tag = "Panic"
          \/ depends.tag = "Panic"
       THEN Panic
       ELSE Ok(Package_new(name.value, description.value,
                           parse_libraries(depends.value).value))

parse_package(source) ==
    LET name == parse_field("Package", source)
    IN IF name.tag = "Panic" THEN Panic
       ELSE IF is_empty(name.value) THEN PackageNameNotFound(source)
       ELSE LET description == parse_field("Description", source)
                depends == parse_field("Depends", source)
            IN IF description.tag = "Panic" \/ depends.tag = "Panic"
               THEN Panic
               ELSE Ok(Package_new(name.value, description.value,
                                   parse_libraries(depends.value).value))

(***************************************************************************)
(* State.                                                                  *)
(*   p_*  one call of parse:  the argument, the lines its loop iterates    *)
(*        over, the number of them it has consumed, the accumulator buf,   *)
(*        the packages vector, and the result once the call is over.       *)
(*   f_*  one call of parse_field: the arguments, the lines its loop       *)
(*        iterates over, the number of them it has consumed, its buf, and  *)
(*        the result.                                                      *)
(*   l_*  one call of parse_libraries: the argument and the result.        *)
(***************************************************************************)
VARIABLES p_source, p_lines, p_i, p_buf, packages, p_ret,
          f_field, f_source, f_lines, f_i, f_buf, f_ret,
          l_source, l_ret

p_vars == <<p_source, p_lines, p_i, p_buf, packages, p_ret>>
f_vars == <<f_field, f_source, f_lines, f_i, f_buf, f_ret>>
l_vars == <<l_source, l_ret>>
vars == <<p_vars, f_vars, l_vars>>

\* the state of a function that is not being called
p_idle == p_source = <<>> /\ p_lines = <<>> /\ p_i = 0 /\ p_buf = <<>> /\ packages = <<>>
          /\ p_ret = Pending
f_idle == f_field = "Package" /\ f_source = <<>> /\ f_lines = <<>>
          /\ f_i = 0 /\ f_buf = <<>> /\ f_ret = Pending
l_idle == l_source = <<>> /\ l_ret = Pending

(***************************************************************************)
(* Inputs.                                                                 *)
(***************************************************************************)
\* every string over `alphabet` of at most n characters
StringsUpTo(alphabet, n) == UNION {[1..k -> alphabet] : k \in 0..n}

\* every sequence of at most n lines of `vocabulary`, written as one text
\* with a line feed between the lines
TextsUpTo(vocabulary, n) ==
    {JoinWith(ls, <<LF>>) : ls \in UNION {[1..k -> vocabulary] : k \in 0..n}}

DepAlphabet == {"a", "b", ",", SP, "|"}

\* "a, b, c | d" as in tests::test_parse_libraries, and strings with empty
\* clauses and alternatives
DepExamples ==
    {<<"a", ",", SP, "b", ",", SP, "c", SP, "|", SP, "d">>,
     <<"a", SP, "|", SP, "b", SP, "|", SP, "c", ",", SP, "d">>,
     <<"a", SP, "|", SP, ",", SP, SP, "|", SP, "b">>}

DepInputs == StringsUpTo(DepAlphabet, MaxDepLen) \cup DepExamples

\* the lines a stanza handed to parse_field is made of, F being the name
FieldLineVocab(F) ==
    {F \o <<":", SP, "a">>,                          \* F: a
     F \o <<":", SP, "b", SP>>,                      \* F: b_
     F \o <<":", SP>>,                               \* F:_
     F \o <<":", "a">>,                              \* F:a
     F \o <<":", SP, "a">> \o F \o <<":", SP, "b">>, \* F: aF: b
     <<SP, SP, "c">>,                                \* __c
     <<SP, ".">>,                                    \* _.
     <<SP, TAB>>,                                    \* _<tab>
     <<"x", ":", SP, "y">>,                          \* x: y
     <<>>}                                           \* an empty line

FieldInputs(field_name) ==
    TextsUpTo(FieldLineVocab(to_string(field_name)), MaxFieldLines)

\* the lines a source handed to parse is made of
SourceLineVocab ==
    {<<>>,
     to_string("Package") \o <<":", SP, "a">>,
     to_string("Package") \o <<":", SP, "b">>,
     to_string("Package") \o <<":">>,
     to_string("Description") \o <<":", SP, "d">>,
     to_string("Depends") \o <<":", SP, "a", SP, "|", SP, "b", ",", SP, "c">>,
     <<CR, CR>>}

SourceInputs == TextsUpTo(SourceLineVocab, MaxSourceLines)

(***************************************************************************)
(* parse, one iteration of its loop per step.                              *)
(***************************************************************************)
\* SourceLines without the empty line appended to the end
SourceLines_NoBlankLine(source) == lines(writeln(<<>>, source))

\* the lines the loop of parse iterates over (parser.rs:118-125)
SourceLines(source) == lines(writeln(writeln(<<>>, source), <<>>))

p_line == p_lines[p_i + 1]

p_looping == p_ret = Pending /\ p_i < Len(p_lines)

\* a non-empty line goes to the accumulator
ParseAppend ==
    /\ p_looping
    /\ ~is_empty(p_line)
    /\ p_buf' = writeln(p_buf, p_line)
    /\ p_i' = p_i + 1
    /\ UNCHANGED <<p_source, p_lines, packages, p_ret, f_vars, l_vars>>

\* ParsePush without buf.clear()
ParsePush_NoClear ==
    /\ p_looping
    /\ is_empty(p_line)
    /\ LET r == parse_package(p_buf)
       IN /\ r.tag = "Ok"
          /\ packages' = Append(packages, r.value)
    /\ p_i' = p_i + 1
    /\ UNCHANGED <<p_source, p_lines, p_buf, p_ret, f_vars, l_vars>>

\* an empty line: the accumulator parses to a package, which is pushed
ParsePush ==
    /\ p_looping
    /\ is_empty(p_line)
    /\ LET r == parse_package(p_buf)
       IN /\ r.tag = "Ok"
          /\ packages' = Append(packages, r.value)
          /\ p_buf' = <<>>
    /\ p_i' = p_i + 1
    /\ UNCHANGED <<p_source, p_lines, p_ret, f_vars, l_vars>>

\* an empty line: parse_package fails and parse returns the error
ParseErr ==
    /\ p_looping
    /\ is_empty(p_line)
    /\ LET r == parse_package(p_buf)
       IN /\ r.tag = "Err"
          /\ p_ret' = r
    /\ UNCHANGED <<p_source, p_lines, p_i, p_buf, packages, f_vars, l_vars>>

\* an empty line: parse_package panics and parse unwinds
ParsePanic ==
    /\ p_looping
    /\ is_empty(p_line)
    /\ parse_package(p_buf).tag = "Panic"
    /\ p_ret' = Panic
    /\ UNCHANGED <<p_source, p_lines, p_i, p_buf, packages, f_vars, l_vars>>

\* the lines are exhausted: Ok(Document::new(packages))
ParseReturn ==
    /\ p_ret = Pending
    /\ p_i = Len(p_lines)
    /\ p_ret' = Ok(Document_new(packages))
    /\ UNCHANGED <<p_source, p_lines, p_i, p_buf, packages, f_vars, l_vars>>

Init ==
    /\ p_source \in SourceInputs
    /\ p_lines = SourceLines(p_source)
    /\ p_i = 0 /\ p_buf = <<>> /\ packages = <<>> /\ p_ret = Pending
    /\ f_idle /\ l_idle

Next == ParseAppend \/ ParsePush \/ ParseErr \/ ParsePanic \/ ParseReturn

Spec == Init /\ [][Next]_vars

(***************************************************************************)
(* parse_field, one iteration of its loop per step.                        *)
(***************************************************************************)
f_line == f_lines[f_i + 1]

f_looping == f_ret = Pending /\ f_i < Len(f_lines)

f_iteration == FieldIteration(f_field, f_line, f_buf)

\* the line starts with the pattern: it is written to the buffer
FieldCapture ==
    /\ f_looping
    /\ f_iteration.exit = "next"
    /\ starts_with(f_line, pat(f_field))
    /\ f_buf' = f_iteration.buf
    /\ f_i' = f_i + 1
    /\ UNCHANGED <<f_field, f_source, f_lines, f_ret, p_vars, l_vars>>

\* an indented line while the buffer is non-empty
FieldContinuation ==
    /\ f_looping
    /\ f_iteration.exit = "next"
    /\ ~starts_with(f_line, pat(f_field))
    /\ ~is_empty(f_buf)
    /\ f_buf' = f_iteration.buf
    /\ f_i' = f_i + 1
    /\ UNCHANGED <<f_field, f_source, f_lines, f_ret, p_vars, l_vars>>

\* any other line while the buffer is empty
FieldSkip ==
    /\ f_looping
    /\ f_iteration.exit = "next"
    /\ ~starts_with(f_line, pat(f_field))
    /\ is_empty(f_buf)
    /\ f_buf' = f_iteration.buf
    /\ f_i' = f_i + 1
    /\ UNCHANGED <<f_field, f_source, f_lines, f_ret, p_vars, l_vars>>

\* break, and the value is returned
FieldBreak ==
    /\ f_looping
    /\ f_iteration.exit = "break"
    /\ f_ret' = FieldValue(f_iteration.buf)
    /\ UNCHANGED <<f_field, f_source, f_lines, f_i, f_buf, p_vars, l_vars>>

\* the unwrap of the first character of an empty line
FieldPanic ==
    /\ f_looping
    /\ f_iteration.exit = "panic"
    /\ f_ret' = Panic
    /\ UNCHANGED <<f_field, f_source, f_lines, f_i, f_buf, p_vars, l_vars>>

\* the lines are exhausted, and the value is returned
FieldEnd ==
    /\ f_ret = Pending
    /\ f_i = Len(f_lines)
    /\ f_ret' = FieldValue(f_buf)
    /\ UNCHANGED <<f_field, f_source, f_lines, f_i, f_buf, p_vars, l_vars>>

InitField ==
    /\ f_field \in FieldName
    /\ f_source \in FieldInputs(f_field)
    /\ f_lines = lines(f_source)
    /\ f_i = 0 /\ f_buf = <<>> /\ f_ret = Pending
    /\ p_idle /\ l_idle

NextField ==
    FieldCapture \/ FieldContinuation \/ FieldSkip \/ FieldBreak
    \/ FieldPanic \/ FieldEnd

SpecField == InitField /\ [][NextField]_vars

(***************************************************************************)
(* parse_libraries, one call per step.                                     *)
(***************************************************************************)
LibCall ==
    /\ l_ret = Pending
    /\ l_ret' = parse_libraries(l_source)
    /\ UNCHANGED <<l_source, p_vars, f_vars>>

InitLib ==
    /\ l_source \in DepInputs
    /\ l_ret = Pending
    /\ p_idle /\ f_idle

NextLib == LibCall

SpecLib == InitLib /\ [][NextLib]_vars

(***************************************************************************)
(* Reference definitions the claims are stated with.                       *)
(***************************************************************************)
RECURSIVE MatchStarts(_, _, _)
\* the indices, from i on, at which the leftmost non-overlapping occurrences
\* of sep in s start
MatchStarts(s, sep, i) ==
    IF i + Len(sep) - 1 > Len(s) THEN {}
    ELSE IF SubSeq(s, i, i + Len(sep) - 1) = sep
         THEN {i} \cup MatchStarts(s, sep, i + Len(sep))
         ELSE MatchStarts(s, sep, i + 1)

\* the k-th smallest element of a set of numbers
Nth(S, k) == CHOOSE x \in S : Cardinality({y \in S : y < x}) = k - 1

\* the text of s between the occurrences of sep: piece k runs from the end of
\* occurrence k-1 (or the start of s) to the start of occurrence k (or the
\* end of s)
PiecesBetween(s, sep) ==
    LET starts == MatchStarts(s, sep, 1)
        n == Cardinality(starts)
        from(k) == IF k = 1 THEN 1 ELSE Nth(starts, k - 1) + Len(sep)
        to(k) == IF k = n + 1 THEN Len(s) ELSE Nth(starts, k) - 1
    IN [k \in 1..(n + 1) |-> SubSeq(s, from(k), to(k))]

CommaSpace == <<",", SP>>
SpacePipeSpace == <<SP, "|", SP>>

\* The stanzas of a sequence of lines L: the maximal runs of non-empty lines.
StanzaStarts(L) ==
    {a \in 1..Len(L) : L[a] # <<>> /\ (a = 1 \/ L[a - 1] = <<>>)}

StanzaEnd(L, a) ==
    CHOOSE b \in a..Len(L) :
        /\ \A k \in a..b : L[k] # <<>>
        /\ (b = Len(L) \/ L[b + 1] = <<>>)

NumStanzas(L) == Cardinality(StanzaStarts(L))

\* the lines of the i-th stanza of L
Stanza(L, i) ==
    LET a == Nth(StanzaStarts(L), i) IN SubSeq(L, a, StanzaEnd(L, a))

\* the text of a stanza: each of its lines, ended by a line feed
StanzaText(ls) == IF ls = <<>> THEN <<>> ELSE JoinWith(ls, <<LF>>) \o <<LF>>

\* the lines of the input of parse, a blank line appended to it
InputLines == lines(p_source \o <<LF>> \o <<LF>>)

\* The value of field F in the stanza lines ls as section 4.2 of the
\* specification defines it: the first line with the prefix "F: " without
\* that prefix, then the directly following lines that start with a space,
\* each stripped, joined by line feeds and trimmed; "" without such a line.
SpecFieldValue(F, ls) ==
    LET prefix == to_string(F) \o <<":", SP>>
        K == {k \in 1..Len(ls) : starts_with(ls[k], prefix)}
    IN IF K = {} THEN <<>>
       ELSE LET k == Nth(K, 1)
                m == CHOOSE j \in k..Len(ls) :
                        /\ \A c \in (k + 1)..j : ls[c] # <<>> /\ Head(ls[c]) = SP
                        /\ (j = Len(ls) \/ ls[j + 1] = <<>>
                            \/ Head(ls[j + 1]) # SP)
                content == [c \in 1..(m - k + 1) |->
                               IF c = 1 THEN Drop(ls[k], Len(prefix))
                               ELSE trim(ls[k + c - 1])]
            IN trim(JoinWith(content, <<LF>>))

(***************************************************************************)
(* C5.  parse_libraries returns an empty sequence for the empty string;    *)
(* for every non-empty input it returns exactly one Library per clause of  *)
(* the split on ", ", in input order, each Library's name being the        *)
(* clause's first alternative of the split on " | " and its alternates the *)
(* remaining alternatives in order (none when the clause has no " | ").    *)
(***************************************************************************)
C5_LibrariesAreTheClauses ==
    l_ret # Pending =>
        /\ l_ret.tag = "Ok"
        /\ l_source = <<>> => l_ret.value = <<>>
        /\ l_source # <<>> =>
            LET clauses == PiecesBetween(l_source, CommaSpace)
                libraries == l_ret.value
            IN /\ Len(libraries) = Len(clauses)
               /\ \A k \in 1..Len(clauses) :
                    LET alternatives == PiecesBetween(clauses[k], SpacePipeSpace)
                    IN /\ libraries[k].name = alternatives[1]
                       /\ libraries[k].alternates = Tail(alternatives)
                       /\ (Len(alternatives) = 1 => libraries[k].alternates = <<>>)

\* a call has returned several libraries, one with alternates and one without
C5_Witness ==
    /\ l_ret.tag = "Ok"
    /\ Len(l_ret.value) >= 2
    /\ \E k \in 1..Len(l_ret.value) : Len(l_ret.value[k].alternates) >= 1
    /\ \E k \in 1..Len(l_ret.value) : l_ret.value[k].alternates = <<>>

(***************************************************************************)
(* C1.  For every input in which each stanza has a non-empty Package       *)
(* field, parse returns Ok and the number of packages of the Document is   *)
(* the number of stanzas (maximal runs of non-empty lines) of the input,   *)
(* counted after a blank line is appended to it.                           *)
(***************************************************************************)
C1_OnePackagePerStanza ==
    (/\ p_ret # Pending
     /\ \A i \in 1..NumStanzas(InputLines) :
            SpecFieldValue("Package", Stanza(InputLines, i)) # <<>>)
    => /\ p_ret.tag = "Ok"
       /\ Len(p_ret.value.packages) = NumStanzas(InputLines)

(***************************************************************************)
(* C2.  An empty line seen while the accumulator is empty is a no-op: no   *)
(* package is parsed or appended and no error is raised, so consecutive    *)
(* blank lines, or a blank line at the start or the end of the input,      *)
(* produce no phantom stanza.                                              *)
(***************************************************************************)
C2_BlankLineOnEmptyAccumulatorIsNoOp ==
    [][(p_looping /\ is_empty(p_line) /\ is_empty(p_buf))
         => (packages' = packages /\ p_buf' = p_buf /\ p_ret' = Pending)]_vars

(***************************************************************************)
(* C3.  If some stanza of the input has no Package field, or an empty      *)
(* Package value, parse returns Err(PackageNameNotFound): no Package is    *)
(* appended for that stanza, and none for a stanza after the first such    *)
(* stanza.  (Stated of the calls that return; a call that panics is left   *)
(* to the claim about panics.)                                             *)
(***************************************************************************)
C3_UnnamedStanzaFailsTheParse ==
    LET unnamed == {i \in 1..NumStanzas(InputLines) :
                       SpecFieldValue("Package", Stanza(InputLines, i)) = <<>>}
    IN (p_ret.tag \in {"Ok", "Err"} /\ unnamed # {})
       => /\ p_ret.tag = "Err"
          /\ Len(packages) < Nth(unnamed, 1)

(***************************************************************************)
(* C8.  Every Package in every Document that parse returns has a non-empty *)
(* name: parse never returns Ok with a package whose name is "".           *)
(***************************************************************************)
C8_NamesAreNonEmpty ==
    /\ \A k \in 1..Len(packages) : packages[k].name # <<>>
    /\ p_ret.tag = "Ok" =>
         \A k \in 1..Len(p_ret.value.packages) :
             p_ret.value.packages[k].name # <<>>

\* parse has returned a Document with two packages
C8_Witness == p_ret.tag = "Ok" /\ Len(p_ret.value.packages) >= 2

(***************************************************************************)
(* C9.  When parse fails, the PackageNameNotFound error carries the text   *)
(* of the offending stanza: the lines of the first stanza of the input     *)
(* whose extracted Package value is empty, and no line of another stanza.  *)
(***************************************************************************)
C9_ErrorCarriesTheOffendingStanza ==
    LET offending ==
            {i \in 1..NumStanzas(InputLines) :
                parse_field("Package", StanzaText(Stanza(InputLines, i)))
                    = Ok(<<>>)}
    IN (p_ret.tag = "Err" /\ offending # {})
       => p_ret.error = StanzaText(Stanza(InputLines, Nth(offending, 1)))

(***************************************************************************)
(* C10.  For every successful parse, the i-th package of the Document is   *)
(* assembled from the i-th stanza of the input, in input order: its name,  *)
(* description and depends are the Package, Description and Depends values *)
(* of that stanza only, and a stanza without a Description or without a    *)
(* Depends field yields description = "" respectively depends = [].        *)
(***************************************************************************)
C10_PackageIsOfItsStanza ==
    p_ret.tag = "Ok" =>
        LET doc == p_ret.value.packages
        IN /\ Len(doc) = NumStanzas(InputLines)
           /\ \A i \in 1..Len(doc) :
                LET ls == Stanza(InputLines, i)
                    text == StanzaText(ls)
                    absent(F) == \A k \in 1..Len(ls) : ~starts_with(ls[k], pat(F))
                IN /\ Ok(doc[i].name) = parse_field("Package", text)
                   /\ Ok(doc[i].description) = parse_field("Description", text)
                   /\ Ok(doc[i].depends) =
                          parse_libraries(parse_field("Depends", text).value)
                   /\ absent("Description") => doc[i].description = <<>>
                   /\ absent("Depends") => doc[i].depends = <<>>

\* parse has returned two packages with different names, the first with a
\* description or dependencies, the second with neither
C10_Witness ==
    /\ p_ret.tag = "Ok"
    /\ Len(p_ret.value.packages) = 2
    /\ LET doc == p_ret.value.packages
       IN /\ doc[1].name # doc[2].name
          /\ (doc[1].description # <<>> \/ doc[1].depends # <<>>)
          /\ doc[2].description = <<>> /\ doc[2].depends = <<>>

(***************************************************************************)
(* C4.  parse_field on a stanza where the target field line "Field: A" is  *)
(* followed by space-indented continuation lines returns the first content *)
(* line and every continuation line, each stripped of leading and trailing *)
(* whitespace, in input order and joined by newlines; a continuation line  *)
(* that is a single "." is kept as a content line "." in its position.     *)
(* (The value may be read with every content line stripped, or as section  *)
(* 4.2 has it, with the joined value trimmed as a whole: the formula       *)
(* accepts both.)                                                          *)
(***************************************************************************)
C4_FoldedValue ==
    LET ls == f_lines
        prefix == to_string(f_field) \o <<":", SP>>
        K == {k \in 1..Len(ls) : starts_with(ls[k], prefix)}
    IN (/\ f_ret # Pending
        /\ \A c \in 1..Len(ls) : ls[c] # <<>>
        /\ K # {}
        /\ Nth(K, 1) < Len(ls)
        /\ Head(ls[Nth(K, 1) + 1]) = SP)
       => LET k == Nth(K, 1)
              m == CHOOSE j \in k..Len(ls) :
                      /\ \A c \in (k + 1)..j : Head(ls[c]) = SP
                      /\ (j = Len(ls) \/ Head(ls[j + 1]) # SP)
              stripped == [c \in 1..(m - k + 1) |->
                              IF c = 1 THEN trim(Drop(ls[k], Len(prefix)))
                              ELSE trim(ls[k + c - 1])]
          IN /\ f_ret.tag = "Ok"
             /\ \/ f_ret.value = JoinWith(stripped, <<LF>>)
                \/ f_ret.value = SpecFieldValue(f_field, ls)

(***************************************************************************)
(* C6.  In parse_field, once a capture is active, the first later line     *)
(* that does not start with a space terminates the field and scanning      *)
(* stops, also when that line is a second line of the same field name: the *)
(* value returned is that of the first occurrence of the field and its own *)
(* continuation lines.                                                     *)
(***************************************************************************)
C6_FirstUnindentedLineTerminates ==
    [][(/\ f_looping
        /\ ~is_empty(f_buf)
        /\ f_line # <<>>
        /\ Head(f_line) # SP)
         => (f_ret' # Pending /\ f_ret' = Ok(trim(f_buf)))]_vars

(***************************************************************************)
(* C7.  In parse_field, capture starts only on a line that has             *)
(* "<FieldName>: " (name, colon, space) as a prefix, and the first content *)
(* line is that line with exactly this leading prefix removed, the rest of *)
(* the line unchanged, also when it contains "<FieldName>: " again; a line *)
(* "FieldName:" not followed by a space starts no capture.                 *)
(***************************************************************************)
C7_CaptureStripsTheLeadingPrefix ==
    [][(f_looping /\ is_empty(f_buf) /\ ~is_empty(f_buf'))
         => LET prefix == to_string(f_field) \o <<":", SP>>
            IN /\ starts_with(f_line, prefix)
               /\ f_buf' = Drop(f_line, Len(prefix)) \o <<LF>>]_vars

(***************************************************************************)
(* C11.  parse_field given stanza text that contains an empty line does    *)
(* not fail: the empty line is treated as a non-continuation line, so it   *)
(* terminates an active capture (and is skipped when no capture is         *)
(* active), and parse_field returns a value.                               *)
(***************************************************************************)
C11_EmptyLineDoesNotFail ==
    (f_ret # Pending /\ \E k \in 1..Len(f_lines) : f_lines[k] = <<>>)
        => f_ret.tag = "Ok"

(***************************************************************************)
(* C12.  parse_libraries succeeds for every input string: malformed        *)
(* dependency syntax (empty clauses, leading or trailing separators,       *)
(* unbalanced alternation) never produces an error or a failure, only a    *)
(* structurally valid sequence of Library entries: each a Library with a   *)
(* name that is a string and alternates that are a sequence of strings,    *)
(* at least one entry for a non-empty input.                               *)
(***************************************************************************)
C12_LibrariesAlwaysSucceed ==
    l_ret # Pending =>
        /\ l_ret.tag = "Ok"
        /\ l_ret.value \in Seq([kind : {"Library"}, name : Seq(STRING),
                                alternates : Seq(Seq(STRING))])
        /\ l_source # <<>> => Len(l_ret.value) >= 1

\* a call has returned for a string with an empty clause and for an
\* alternation without a first alternative
C12_Witness ==
    /\ l_ret.tag = "Ok"
    /\ Len(l_ret.value) >= 2
    /\ l_ret.value[1].name = <<>>
    /\ \E k \in 1..Len(l_ret.value) :
          /\ Len(l_ret.value[k].alternates) >= 1
          /\ \E j \in 1..Len(l_ret.value[k].alternates) :
                l_ret.value[k].alternates[j] = <<>>

(***************************************************************************)
(* C13.  In parse, the document assembly starts with an empty accumulator  *)
(* and an empty result list, and whenever parse returns Ok the accumulator *)
(* is empty at end of input: every non-empty line of the input has been    *)
(* flushed into exactly one parsed stanza, and the final stanza is flushed *)
(* also when the input has no trailing blank line.                         *)
(***************************************************************************)
C13_AccumulatorEmptyAtEnd ==
    /\ (p_ret = Pending /\ p_i = 0) => (p_buf = <<>> /\ packages = <<>>)
    /\ p_ret.tag = "Ok" =>
         LET L == InputLines
             n == NumStanzas(L)
             from(i) == Nth(StanzaStarts(L), i)
             parsed(i) ==
                 Ok(packages[i]) = parse_package(StanzaText(Stanza(L, i)))
         IN /\ p_buf = <<>>
            /\ p_i = Len(p_lines)
            /\ p_ret.value.packages = packages
            /\ Len(packages) = n
            /\ \A k \in 1..Len(L) :
                 L[k] # <<>> =>
                   Cardinality({i \in 1..n :
                                  /\ from(i) <= k
                                  /\ k <= StanzaEnd(L, from(i))
                                  /\ parsed(i)}) = 1

\* parse has returned Ok for an input of two stanzas that does not end with
\* a blank line, the last stanza of two lines
C13_Witness ==
    /\ p_ret.tag = "Ok"
    /\ p_source # <<>>
    /\ p_source[Len(p_source)] # LF
    /\ Len(packages) = 2
    /\ Len(Stanza(InputLines, 2)) = 2

(***************************************************************************)
(* C14.  The value parse_field returns for a field F depends only on the   *)
(* first line of the stanza that starts F and on the space-indented lines  *)
(* directly after it: lines before the match are skipped and lines after   *)
(* termination are ignored, so the value is that of the stanza cut down to *)
(* the matching line and its continuation lines.  (Stated of stanzas of    *)
(* non-empty lines, the match being the first line the code matches.)      *)
(***************************************************************************)
C14_ValueDependsOnFieldLinesOnly ==
    LET ls == f_lines
        K == {k \in 1..Len(ls) : starts_with(ls[k], pat(f_field))}
    IN (f_ret # Pending /\ \A c \in 1..Len(ls) : ls[c] # <<>>)
       => IF K = {} THEN f_ret = Ok(<<>>)
          ELSE LET k == Nth(K, 1)
                   m == CHOOSE j \in k..Len(ls) :
                           /\ \A c \in (k + 1)..j : Head(ls[c]) = SP
                           /\ (j = Len(ls) \/ Head(ls[j + 1]) # SP)
               IN f_ret = FieldLoop(f_field, SubSeq(ls, k, m), <<>>)

\* a line of whitespace characters only (the empty line too)
IsBlank(l) == \A i \in 1..Len(l) : l[i] \in White_Space

\* l from its first character that is not whitespace on
WithoutLeadingSpace(l) ==
    IF IsBlank(l) THEN <<>>
    ELSE SubSeq(l, CHOOSE i \in 1..Len(l) :
                       /\ l[i] \notin White_Space
                       /\ \A j \in 1..(i - 1) : l[j] \in White_Space,
                Len(l))

\* l up to its last character that is not whitespace
WithoutTrailingSpace(l) ==
    IF IsBlank(l) THEN <<>>
    ELSE SubSeq(l, 1, CHOOSE i \in 1..Len(l) :
                          /\ l[i] \notin White_Space
                          /\ \A j \in (i + 1)..Len(l) : l[j] \in White_Space)

\* the content lines written to a buffer, each of which ends with a line feed
ContentLines(buf) ==
    IF buf = <<>> THEN <<>>
    ELSE PiecesBetween(Take(buf, Len(buf) - 1), <<LF>>)

C16_ParseNeverPanics == p_ret.tag # "Panic"

\* s has an occurrence of sep
Contains(s, sep) ==
    \E i \in 1..(Len(s) - Len(sep) + 1) : SubSeq(s, i, i + Len(sep) - 1) = sep

(***************************************************************************)
(* C17.  parse_libraries loses no text: for every non-empty input s,       *)
(* joining each returned Library's name and alternates with " | " and then *)
(* joining the Libraries with ", " gives back s exactly, and no returned   *)
(* name and no alternate contains ", " or " | ".                           *)
(***************************************************************************)
C17_LibrariesLoseNoText ==
    (l_ret # Pending /\ l_source # <<>>) =>
        LET libraries == l_ret.value
            alternatives(k) == <<libraries[k].name>> \o libraries[k].alternates
            clause(k) == JoinWith(alternatives(k), SpacePipeSpace)
        IN /\ JoinWith([k \in 1..Len(libraries) |-> clause(k)], CommaSpace)
                = l_source
           /\ \A k \in 1..Len(libraries) :
                \A j \in 1..Len(alternatives(k)) :
                    /\ ~Contains(alternatives(k)[j], CommaSpace)
                    /\ ~Contains(alternatives(k)[j], SpacePipeSpace)

\* a call has returned two libraries, one of them with two alternates
C17_Witness ==
    /\ l_ret.tag = "Ok"
    /\ Len(l_ret.value) = 2
    /\ \E k \in 1..2 : Len(l_ret.value[k].alternates) = 2

====
